---- MODULE Spec2Model ----
(***************************************************************************)
(* A model of deckofcards-rs: the Value enumeration (src/src/value.rs) and *)
(* the Hand collection (src/src/hand.rs).                                  *)
(*                                                                         *)
(* A Hand owns a Vec<Card>.  The Vec's backing storage is modelled as a    *)
(* heap of buffers and every hand as the buffer it owns, so that "the two  *)
(* hands evolve independently" is a statement the model can refute.        *)
(***************************************************************************)
EXTENDS Integers, Sequences, FiniteSets

\* The cap on the number of cards held by the two hands together.
MaxCards == 4

\* The longest slice passed to from_cards / push_cards / remove_cards.
MaxArgs == 2

----------------------------------------------------------------------------
(* value.rs *)

\* enum Value: the thirteen variants, in declaration order.
Value ==
    <<"Two", "Three", "Four", "Five", "Six", "Seven", "Eight", "Nine", "Ten",
      "Jack", "Queen", "King", "Ace">>

Values == {Value[k] : k \in 1..Len(Value)}

\* A plausible slip: the table follows the declaration order of the enum.
VALUES_declaration_order == Value

\* static VALUES: [Value; 13] of Value::iterator().
VALUES ==
    <<"Ace", "Two", "Three", "Four", "Five", "Six", "Seven", "Eight", "Nine",
      "Ten", "Jack", "Queen", "King">>

\* Value::ordinal
ordinal(v) ==
    CASE v = "Ace" -> 0
      [] v = "Two" -> 1
      [] v = "Three" -> 2
      [] v = "Four" -> 3
      [] v = "Five" -> 4
      [] v = "Six" -> 5
      [] v = "Seven" -> 6
      [] v = "Eight" -> 7
      [] v = "Nine" -> 8
      [] v = "Ten" -> 9
      [] v = "Jack" -> 10
      [] v = "Queen" -> 11
      [] v = "King" -> 12

----------------------------------------------------------------------------
(* The external Card type, as far as Hand uses it. *)

Card(rank, suit) == [rank |-> rank, suit |-> suit]

AS == Card("Ace", "Spades")
KH == Card("King", "Hearts")
AC == Card("Ace", "Clubs")

\* The cards the model plays with.
CardUniverse == {AS, KH, AC}
Ranks == {c.rank : c \in CardUniverse}
Suits == {c.suit : c \in CardUniverse}

NoCard == Card("None", "None")

\* Card::to_str: the rank's and the suit's letters.
RankChar(r) ==
    CASE r = "Ace" -> "A"
      [] r = "King" -> "K"
      [] r = "Queen" -> "Q"
      [] r = "Jack" -> "J"
      [] r = "Ten" -> "T"
      [] r = "Nine" -> "9"
      [] r = "Eight" -> "8"
      [] r = "Seven" -> "7"
      [] r = "Six" -> "6"
      [] r = "Five" -> "5"
      [] r = "Four" -> "4"
      [] r = "Three" -> "3"
      [] r = "Two" -> "2"

SuitChar(s) ==
    CASE s = "Spades" -> "S"
      [] s = "Hearts" -> "H"
      [] s = "Diamonds" -> "D"
      [] s = "Clubs" -> "C"

Card_to_str(c) == <<RankChar(c.rank), SuitChar(c.suit)>>

\* The free filter functions cards_of_rank / cards_of_suit over a slice.
RECURSIVE cards_of_rank(_, _)
cards_of_rank(slice, rank) ==
    IF slice = <<>> THEN <<>>
    ELSE IF Head(slice).rank = rank
         THEN <<Head(slice)>> \o cards_of_rank(Tail(slice), rank)
         ELSE cards_of_rank(Tail(slice), rank)

RECURSIVE cards_of_suit(_, _)
cards_of_suit(slice, suit) ==
    IF slice = <<>> THEN <<>>
    ELSE IF Head(slice).suit = suit
         THEN <<Head(slice)>> \o cards_of_suit(Tail(slice), suit)
         ELSE cards_of_suit(Tail(slice), suit)

----------------------------------------------------------------------------
(* State *)

Hands == {"a", "b"}
Iters == {"i", "j"}

VARIABLES
    heap,       \* buffer id -> the Vec<Card> stored there
    buf,        \* hand -> the buffer its `cards` field owns
    panicked,   \* the program has panicked
    derived,    \* one hand was made as a copy of the other, none rebuilt since
    last,       \* the last call: its name, receiver, arguments, result
    pushed,     \* hand -> the cards pushed, one by one, since Hand::new
    iter        \* iterator -> its position in VALUES, the values it has
                \* yielded so far, and whether it has returned None

handVars == <<heap, buf, panicked, derived, last>>
vars == <<heap, buf, panicked, derived, last, pushed, iter>>

\* The buffer a Vec newly allocated for hand h lives in (buffers are named
\* after the hand that will own them; the old buffer of h is dropped by the
\* same assignment).
Fresh(h) == IF h = "a" THEN 1 ELSE 2
Bufs == {Fresh(h) : h \in Hands}

Other(h) == IF h = "a" THEN "b" ELSE "a"

\* impl Cards for Hand: cards()
cards(h) == heap[buf[h]]

\* The memory a method runs on, and what a method returns: the memory
\* afterwards, whether it panicked, and its return value.
Mem == [heap |-> heap, buf |-> buf]

Ret(hp, bf) ==
    [heap |-> hp, buf |-> bf, panic |-> FALSE,
     cards |-> <<>>, card |-> NoCard, n |-> 0, str |-> <<>>]

Panic(m) == [Ret(m.heap, m.buf) EXCEPT !.panic = TRUE]

\* The Vec<Card> of hand `self` in memory m, and m with that Vec replaced.
vec(m, self) == m.heap[m.buf[self]]
Store(m, self, v) == Ret([m.heap EXCEPT ![m.buf[self]] = v], m.buf)

\* A hand built around a newly allocated Vec holding v.
Build(m, h, v) ==
    Ret([m.heap EXCEPT ![Fresh(h)] = v], [m.buf EXCEPT ![h] = Fresh(h)])

----------------------------------------------------------------------------
(* hand.rs: each method as the memory and the value it returns *)

\* Hand::new
new(m, h) == Build(m, h, <<>>)

\* Hand::from_cards
from_cards(m, h, slice) == Build(m, h, slice)

\* Hand::from_hand
from_hand(m, h, hand) == from_cards(m, h, vec(m, hand))

\* A plausible slip: the copy shares the original's backing storage.
clone_shared(m, h, self) == Ret(m.heap, [m.buf EXCEPT ![h] = m.buf[self]])

\* impl Clone for Hand
clone(m, h, self) == Build(m, h, vec(m, self))

\* A plausible slip: the card goes to the front.
push_card_front(m, self, card) == Store(m, self, <<card>> \o vec(m, self))

\* Hand::push_card
push_card(m, self, card) == Store(m, self, Append(vec(m, self), card))

\* Hand::push_cards
push_cards(m, self, xs) == Store(m, self, vec(m, self) \o xs)

\* A plausible slip: Vec::append, which moves the cards out of `other`.
push_hand_drain(m, self, other) ==
    LET moved == Store(m, self, vec(m, self) \o vec(m, other))
    IN  Store(moved, other, <<>>)

\* Hand::push_hand
push_hand(m, self, other) == Store(m, self, vec(m, self) \o vec(m, other))

\* impl AddAssign<&Hand> for Hand
add_assign_hand(m, self, rhs) == push_hand(m, self, rhs)

\* impl AddAssign<Card> for Hand
add_assign_card(m, self, rhs) == push_card(m, self, rhs)

\* Hand::len
len(m, self) == [Ret(m.heap, m.buf) EXCEPT !.n = Len(vec(m, self))]

\* Hand::clear
clear(m, self) == Store(m, self, <<>>)

\* Vec::remove on a valid index (from 0): the later elements shift left.
VecRemove(v, index) ==
    [k \in 1..(Len(v) - 1) |-> IF k <= index THEN v[k] ELSE v[k + 1]]

\* A plausible slip: an index past the end is clamped to the last card.
remove_clamped(m, self, index) ==
    LET v == vec(m, self)
        i == IF index >= Len(v) THEN Len(v) - 1 ELSE index
    IN  IF v = <<>> THEN Ret(m.heap, m.buf)
        ELSE [Store(m, self, VecRemove(v, i)) EXCEPT !.card = v[i + 1]]

\* Hand::remove: Vec::remove panics when index >= len.
remove(m, self, index) ==
    LET v == vec(m, self)
    IN  IF index >= Len(v) THEN Panic(m)
        ELSE [Store(m, self, VecRemove(v, index)) EXCEPT !.card = v[index + 1]]

\* Iterator::position from index `from` on: the first index whose card is
\* equal to `card`, or None.
None == -1
RECURSIVE position(_, _, _)
position(v, card, from) ==
    IF from >= Len(v) THEN None
    ELSE IF v[from + 1] = card THEN from
    ELSE position(v, card, from + 1)

\* A plausible slip: the scan runs from the back, so the last matching card
\* goes.
RECURSIVE rposition(_, _, _)
rposition(v, card, from) ==
    IF from < 0 THEN None
    ELSE IF v[from + 1] = card THEN from
    ELSE rposition(v, card, from - 1)

remove_card_last(m, self, card) ==
    LET v == vec(m, self)
        found == rposition(v, card, Len(v) - 1)
    IN  IF found # None THEN Store(m, self, VecRemove(v, found))
        ELSE Ret(m.heap, m.buf)

\* Hand::remove_card
remove_card(m, self, card) ==
    LET v == vec(m, self)
        found == position(v, card, 0)
    IN  IF found # None THEN Store(m, self, VecRemove(v, found))
        ELSE Ret(m.heap, m.buf)

\* A plausible slip: the loop stops at the first card that is not in the
\* hand.
RECURSIVE remove_cards_until_miss(_, _, _)
remove_cards_until_miss(m, self, xs) ==
    IF xs = <<>> THEN Ret(m.heap, m.buf)
    ELSE IF position(vec(m, self), Head(xs), 0) = None THEN Ret(m.heap, m.buf)
    ELSE remove_cards_until_miss(remove_card(m, self, Head(xs)), self, Tail(xs))

\* A plausible slip: Vec::retain, which drops every copy of a named card.
remove_cards_retain(m, self, xs) ==
    Store(m, self,
          SelectSeq(vec(m, self),
                    LAMBDA c : \A k \in 1..Len(xs) : xs[k] # c))

\* Hand::remove_cards
RECURSIVE remove_cards(_, _, _)
remove_cards(m, self, xs) ==
    IF xs = <<>> THEN Ret(m.heap, m.buf)
    ELSE remove_cards(remove_card(m, self, Head(xs)), self, Tail(xs))

\* A plausible slip: the cards found are taken out of the hand.
Hand_cards_of_rank_take(m, self, rank) ==
    LET v == vec(m, self)
    IN  [Store(m, self, SelectSeq(v, LAMBDA c : c.rank # rank))
            EXCEPT !.cards = cards_of_rank(v, rank)]

\* Hand::cards_of_rank
Hand_cards_of_rank(m, self, rank) ==
    [Ret(m.heap, m.buf) EXCEPT !.cards = cards_of_rank(vec(m, self), rank)]

\* Hand::cards_of_suit
Hand_cards_of_suit(m, self, suit) ==
    [Ret(m.heap, m.buf) EXCEPT !.cards = cards_of_suit(vec(m, self), suit)]

\* usize subtraction `x - y`: it overflows when x < y.
usize_sub_overflows(x, y) == x < y

\* The loop of Display::fmt from element i on, `result` built so far.  The
\* subtraction len() - 1 is evaluated inside the loop body only.
RECURSIVE fmt_loop(_, _, _)
fmt_loop(v, i, result) ==
    IF i >= Len(v) THEN [str |-> result, panic |-> FALSE]
    ELSE LET pushed_str == result \o Card_to_str(v[i + 1])
         IN  IF usize_sub_overflows(Len(v), 1)
             THEN [str |-> pushed_str, panic |-> TRUE]
             ELSE IF i < Len(v) - 1
                  THEN fmt_loop(v, i + 1, Append(pushed_str, ","))
                  ELSE fmt_loop(v, i + 1, pushed_str)

\* A plausible slip: the comma follows every card.
fmt_trailing(m, self) ==
    LET v == vec(m, self)
        F[i \in 0..Len(v)] ==
            IF i = 0 THEN <<>> ELSE Append(F[i - 1] \o Card_to_str(v[i]), ",")
    IN  [Ret(m.heap, m.buf) EXCEPT !.str = F[Len(v)]]

\* impl Display for Hand
fmt(m, self) ==
    LET out == fmt_loop(vec(m, self), 0, <<>>)
    IN  [Ret(m.heap, m.buf) EXCEPT !.str = out.str, !.panic = out.panic]

----------------------------------------------------------------------------
(* The program: calls on two hands *)

BoundedSeq(S, n) == UNION {[1..k -> S] : k \in 0..n}

\* The slices and the indices the calls are made with.
Slices == BoundedSeq(CardUniverse, MaxArgs)
Indices == 0..(MaxCards + 1)

NoArgs == [other |-> "a", card |-> NoCard, xs |-> <<>>, index |-> 0, key |-> ""]

Total(m) == Len(vec(m, "a")) + Len(vec(m, "b"))

\* No call is in progress: the caller holds no result.
Idle ==
    [op |-> "idle", self |-> "a", other |-> "a", card |-> NoCard, xs |-> <<>>,
     index |-> 0, key |-> "", pre |-> [x \in Hands |-> <<>>], panic |-> FALSE,
     cards |-> <<>>, ret |-> NoCard, n |-> 0, str |-> <<>>]

\* The program can make a call: it has not panicked (a panic ends it) and
\* the caller is done with the result of the call before.
Ready == ~panicked /\ last.op = "idle"

\* One call `name` on hand h with arguments args, r being what the method
\* returns on the current memory.
Call(name, h, args, r) ==
    /\ Total(r) <= MaxCards
    /\ heap' = r.heap
    /\ buf' = r.buf
    /\ panicked' = r.panic
    /\ last' = [op |-> name, self |-> h, other |-> args.other,
                card |-> args.card, xs |-> args.xs, index |-> args.index,
                key |-> args.key, pre |-> [x \in Hands |-> cards(x)],
                panic |-> r.panic, cards |-> r.cards, ret |-> r.card,
                n |-> r.n, str |-> r.str]

New(h) ==
    /\ Call("new", h, NoArgs, new(Mem, h))
    /\ derived' = FALSE

FromHand(h) ==
    /\ Call("from_hand", h, [NoArgs EXCEPT !.other = Other(h)],
            from_hand(Mem, h, Other(h)))
    /\ derived' = TRUE

FromCards(h, xs) ==
    /\ Call("from_cards", h, [NoArgs EXCEPT !.xs = xs], from_cards(Mem, h, xs))
    /\ derived' = FALSE

Clone(h) ==
    /\ Call("clone", h, [NoArgs EXCEPT !.other = Other(h)],
            clone(Mem, h, Other(h)))
    /\ derived' = TRUE

PushCard(h, c) ==
    /\ Call("push_card", h, [NoArgs EXCEPT !.card = c], push_card(Mem, h, c))
    /\ UNCHANGED derived

PushCards(h, xs) ==
    /\ Call("push_cards", h, [NoArgs EXCEPT !.xs = xs], push_cards(Mem, h, xs))
    /\ UNCHANGED derived

PushHand(h) ==
    /\ Call("push_hand", h, [NoArgs EXCEPT !.other = Other(h)],
            push_hand(Mem, h, Other(h)))
    /\ UNCHANGED derived

AddAssignHand(h) ==
    /\ Call("add_assign_hand", h, [NoArgs EXCEPT !.other = Other(h)],
            add_assign_hand(Mem, h, Other(h)))
    /\ UNCHANGED derived

AddAssignCard(h, c) ==
    /\ Call("add_assign_card", h, [NoArgs EXCEPT !.card = c],
            add_assign_card(Mem, h, c))
    /\ UNCHANGED derived

Length(h) ==
    /\ Call("len", h, NoArgs, len(Mem, h))
    /\ UNCHANGED derived

Clear(h) ==
    /\ Call("clear", h, NoArgs, clear(Mem, h))
    /\ UNCHANGED derived

Remove(h, i) ==
    /\ Call("remove", h, [NoArgs EXCEPT !.index = i], remove(Mem, h, i))
    /\ UNCHANGED derived

RemoveCards(h, xs) ==
    /\ Call("remove_cards", h, [NoArgs EXCEPT !.xs = xs],
            remove_cards(Mem, h, xs))
    /\ UNCHANGED derived

RemoveCard(h, c) ==
    /\ Call("remove_card", h, [NoArgs EXCEPT !.card = c], remove_card(Mem, h, c))
    /\ UNCHANGED derived

CardsOfRank(h, rank) ==
    /\ Call("cards_of_rank", h, [NoArgs EXCEPT !.key = rank],
            Hand_cards_of_rank(Mem, h, rank))
    /\ UNCHANGED derived

CardsOfSuit(h, suit) ==
    /\ Call("cards_of_suit", h, [NoArgs EXCEPT !.key = suit],
            Hand_cards_of_suit(Mem, h, suit))
    /\ UNCHANGED derived

Display(h) ==
    /\ Call("fmt", h, NoArgs, fmt(Mem, h))
    /\ UNCHANGED derived

\* The caller has looked at what the call returned and goes on.
Continue ==
    /\ ~panicked
    /\ last.op # "idle"
    /\ last' = Idle
    /\ UNCHANGED <<heap, buf, panicked, derived>>

----------------------------------------------------------------------------
(* The program: iterators over the values *)

\* Value::iterator(): a new iterator over VALUES.
Iterator(k) ==
    iter' = [iter EXCEPT ![k] = [pos |-> 0, yielded |-> <<>>, ended |-> FALSE]]

\* Iter::next(): the value at the position, or None at the end.
IterNext(k) ==
    IF iter[k].pos < Len(VALUES)
    THEN iter' = [iter EXCEPT ![k].pos = @ + 1,
                              ![k].yielded = Append(@, VALUES[iter[k].pos + 1])]
    ELSE iter' = [iter EXCEPT ![k].ended = TRUE]

----------------------------------------------------------------------------
(* Specifications *)

Init ==
    /\ heap = [x \in Bufs |-> <<>>]
    /\ buf = [h \in Hands |-> Fresh(h)]
    /\ panicked = FALSE
    /\ derived = FALSE
    /\ last = Idle
    /\ pushed = [h \in Hands |-> <<>>]
    /\ iter = [k \in Iters |-> [pos |-> 0, yielded |-> <<>>, ended |-> FALSE]]

\* What a step on the hands leaves alone.
Rest == UNCHANGED <<pushed, iter>>

\* Any calls on the two hands.
Next ==
    \/ Ready /\ \E h \in Hands : New(h) /\ Rest
    \/ Ready /\ \E h \in Hands : FromHand(h) /\ Rest
    \/ Ready /\ \E h \in Hands, xs \in Slices : FromCards(h, xs) /\ Rest
    \/ Ready /\ \E h \in Hands : Clone(h) /\ Rest
    \/ Ready /\ \E h \in Hands, c \in CardUniverse : PushCard(h, c) /\ Rest
    \/ Ready /\ \E h \in Hands, xs \in Slices : PushCards(h, xs) /\ Rest
    \/ Ready /\ \E h \in Hands : PushHand(h) /\ Rest
    \/ Ready /\ \E h \in Hands : AddAssignHand(h) /\ Rest
    \/ Ready /\ \E h \in Hands, c \in CardUniverse : AddAssignCard(h, c) /\ Rest
    \/ Ready /\ \E h \in Hands : Length(h) /\ Rest
    \/ Ready /\ \E h \in Hands : Clear(h) /\ Rest
    \/ Ready /\ \E h \in Hands, i \in Indices : Remove(h, i) /\ Rest
    \/ Ready /\ \E h \in Hands, xs \in Slices : RemoveCards(h, xs) /\ Rest
    \/ Ready /\ \E h \in Hands, c \in CardUniverse : RemoveCard(h, c) /\ Rest
    \/ Ready /\ \E h \in Hands, rank \in Ranks : CardsOfRank(h, rank) /\ Rest
    \/ Ready /\ \E h \in Hands, suit \in Suits : CardsOfSuit(h, suit) /\ Rest
    \/ Ready /\ \E h \in Hands : Display(h) /\ Rest
    \/ Continue /\ Rest

Spec == Init /\ [][Next]_vars

\* Hands made by Hand::new and filled by push_card only.
NextPush ==
    \/ Ready /\ \E h \in Hands :
          New(h) /\ pushed' = [pushed EXCEPT ![h] = <<>>] /\ UNCHANGED iter
    \/ Ready /\ \E h \in Hands, c \in CardUniverse :
          /\ PushCard(h, c)
          /\ pushed' = [pushed EXCEPT ![h] = Append(@, c)]
          /\ UNCHANGED iter
    \/ Ready /\ \E h \in Hands : Length(h) /\ Rest
    \/ Continue /\ Rest

SpecPush == Init /\ [][NextPush]_vars

\* Two iterators over the values.
NextValue ==
    \/ \E k \in Iters : Iterator(k) /\ UNCHANGED <<handVars, pushed>>
    \/ \E k \in Iters : IterNext(k) /\ UNCHANGED <<handVars, pushed>>

SpecValue == Init /\ [][NextValue]_vars

----------------------------------------------------------------------------
(* Properties *)

\* The receiver of the last call, its cards before the call, and the other
\* hand's.
Self == last.self
Pre == last.pre[last.self]
PreOther == last.pre[Other(last.self)]

Without(v, k) == SubSeq(v, 1, k - 1) \o SubSeq(v, k + 1, Len(v))
Occurs(v, c) == {k \in 1..Len(v) : v[k] = c}
Count(v, c) == Cardinality(Occurs(v, c))
Min(x, y) == IF x < y THEN x ELSE y
First(S) == CHOOSE k \in S : \A j \in S : k <= j

\* v without the first card equal to c, v itself when there is none.
WithoutFirst(v, c) ==
    IF Occurs(v, c) = {} THEN v ELSE Without(v, First(Occurs(v, c)))

\* v after WithoutFirst for xs[1], then xs[2], ...
OneByOne(v, xs) ==
    LET F[k \in 0..Len(xs)] ==
            IF k = 0 THEN v ELSE WithoutFirst(F[k - 1], xs[k])
    IN  F[Len(xs)]

\* C1: from Hand::new, after N push_card calls len() is N and cards() is the
\* pushed cards in the order they were pushed, duplicates included.
C1_PushOrder ==
    /\ \A h \in Hands : cards(h) = pushed[h]
    /\ last.op = "len" => last.n = Len(pushed[Self])

C1_Witness ==
    /\ last.op = "len"
    /\ last.n = 3
    /\ pushed[Self][1] = pushed[Self][2]
    /\ pushed[Self][2] # pushed[Self][3]

\* C2: remove(i) on a hand of length L returns the card at i, shortens the
\* hand by one and keeps the other cards in order when i < L, and panics,
\* returning no card, when i >= L.
C2_Remove ==
    last.op = "remove" =>
        IF last.index < Len(Pre)
        THEN /\ ~last.panic
             /\ ~panicked
             /\ last.ret = Pre[last.index + 1]
             /\ Len(cards(Self)) = Len(Pre) - 1
             /\ cards(Self) = Without(Pre, last.index + 1)
        ELSE /\ last.panic
             /\ panicked
             /\ last.ret = NoCard

C2_Witness ==
    /\ last.op = "remove"
    /\ Len(Pre) = 2
    /\ last.index = Len(Pre)
    /\ panicked

C2_WitnessInRange ==
    /\ last.op = "remove"
    /\ Len(Pre) = 3
    /\ last.index = 1
    /\ last.ret = Pre[2]
    /\ cards(Self) = <<Pre[1], Pre[3]>>

\* C3: remove_card(c) removes exactly the first card equal to c and keeps
\* every other card, later copies of c included, in order; when no card
\* equals c the hand is unchanged and the call does not fail.
C3_RemoveCard ==
    last.op = "remove_card" =>
        /\ ~last.panic
        /\ ~panicked
        /\ IF Occurs(Pre, last.card) = {}
           THEN cards(Self) = Pre
           ELSE cards(Self) = Without(Pre, First(Occurs(Pre, last.card)))

C3_Witness ==
    /\ last.op = "remove_card"
    /\ Len(Pre) >= 3
    /\ Occurs(Pre, last.card) = {2, 3}
    /\ cards(Self)[2] = last.card

C3_WitnessAbsent ==
    /\ last.op = "remove_card"
    /\ Pre # <<>>
    /\ Occurs(Pre, last.card) = {}
    /\ cards(Self) = Pre

\* C4: remove_cards(xs) has the effect of remove_card for each element of xs
\* in order: the copies of every card c in the hand go down by
\* min(copies in the hand, copies in xs); [c, c] on a hand with one c
\* shortens it by exactly one.
C4_RemoveCards ==
    last.op = "remove_cards" =>
        /\ ~last.panic
        /\ cards(Self) = OneByOne(Pre, last.xs)
        /\ \A c \in CardUniverse :
              Count(cards(Self), c) =
                  Count(Pre, c) - Min(Count(Pre, c), Count(last.xs, c))
        /\ \A c \in CardUniverse :
              last.xs = <<c, c>> /\ Count(Pre, c) = 1 =>
                  Len(cards(Self)) = Len(Pre) - 1

C4_Witness ==
    /\ last.op = "remove_cards"
    /\ Len(last.xs) = 2
    /\ last.xs[1] = last.xs[2]
    /\ Count(Pre, last.xs[1]) = 1
    /\ Len(Pre) >= 2
    /\ Len(cards(Self)) = Len(Pre) - 1

\* The calls that change the receiver's cards.
Mutators ==
    {"push_card", "push_cards", "push_hand", "add_assign_hand",
     "add_assign_card", "clear", "remove", "remove_cards", "remove_card"}

\* C5: a clone, and a from_hand copy, starts with the original's cards, and
\* from then on a push, remove or clear on either hand leaves the other
\* hand's cards as they were.
C5_CloneIndependent ==
    /\ last.op \in {"clone", "from_hand"} =>
           /\ cards(Self) = PreOther
           /\ cards(Other(Self)) = PreOther
    /\ last.op \in Mutators => cards(Other(Self)) = PreOther

C5_Witness ==
    /\ derived
    /\ last.op \in {"push_card", "remove", "clear"}
    /\ Pre = PreOther
    /\ Len(Pre) >= 2
    /\ cards(Self) # Pre
    /\ cards(Other(Self)) = Pre

\* C6: push_hand(other) and += other leave the left hand holding its former
\* cards followed by other's cards in other's order, += card its former
\* cards followed by the card; the right-hand hand's cards are unchanged.
C6_PushHand ==
    /\ last.op \in {"push_hand", "add_assign_hand"} =>
           /\ ~last.panic
           /\ cards(Self) = Pre \o PreOther
           /\ cards(Other(Self)) = PreOther
    /\ last.op = "add_assign_card" =>
           /\ ~last.panic
           /\ cards(Self) = Append(Pre, last.card)
           /\ cards(Other(Self)) = PreOther

C6_Witness ==
    /\ last.op = "add_assign_hand"
    /\ Len(Pre) = 2
    /\ Len(PreOther) = 1
    /\ Pre[1] # Pre[2]
    /\ Pre[2] # PreOther[1]
    /\ cards(Self) = <<Pre[1], Pre[2], PreOther[1]>>
    /\ cards(Other(Self)) = PreOther

C6_WitnessOrder ==
    /\ last.op = "push_hand"
    /\ Len(PreOther) = 2
    /\ PreOther[1] # PreOther[2]
    /\ cards(Self) = PreOther
    /\ cards(Other(Self)) = PreOther

\* C7: Value::iterator() yields exactly 13 pairwise distinct values, Ace
\* first and King last, the k-th of them (from 0) with ordinal k; ordinal is
\* a bijection from the 13 values onto 0..12; every iterator yields the
\* same sequence.
C7_IteratorOrdinal ==
    /\ \A k \in Iters :
          LET y == iter[k].yielded
          IN  /\ Len(y) <= 13
              /\ \A n \in 1..Len(y) : y[n] \in Values /\ ordinal(y[n]) = n - 1
              /\ \A n1, n2 \in 1..Len(y) : n1 # n2 => y[n1] # y[n2]
              /\ y # <<>> => y[1] = "Ace"
              /\ iter[k].ended => Len(y) = 13 /\ y[13] = "King"
    /\ \A k1, k2 \in Iters :
          \A n \in 1..Min(Len(iter[k1].yielded), Len(iter[k2].yielded)) :
              iter[k1].yielded[n] = iter[k2].yielded[n]
    /\ Cardinality(Values) = 13
    /\ {ordinal(v) : v \in Values} = 0..12
    /\ \A v, w \in Values : ordinal(v) = ordinal(w) => v = w

C7_Witness ==
    /\ iter["i"].ended
    /\ Len(iter["i"].yielded) = 13
    /\ Len(iter["j"].yielded) = 13
    /\ iter["j"].yielded = iter["i"].yielded

\* The cards' texts joined by single commas.
Joined(v) ==
    LET F[k \in 0..Len(v)] ==
            IF k = 0 THEN <<>>
            ELSE IF k = 1 THEN Card_to_str(v[1])
            ELSE F[k - 1] \o <<",">> \o Card_to_str(v[k])
    IN  F[Len(v)]

\* C8: displaying a hand of n cards gives the cards' texts in hand order
\* joined by single commas: max(n - 1, 0) separators, none leading or
\* trailing, no brackets; displaying an empty hand succeeds and gives the
\* empty string.
C8_Display ==
    last.op = "fmt" =>
        /\ ~last.panic
        /\ ~panicked
        /\ last.str = Joined(Pre)
        /\ Count(last.str, ",") = (IF Pre = <<>> THEN 0 ELSE Len(Pre) - 1)
        /\ last.str # <<>> =>
              last.str[1] # "," /\ last.str[Len(last.str)] # ","
        /\ \A k \in 1..Len(last.str) : last.str[k] \notin {"[", "]"}
        /\ Pre = <<>> => last.str = <<>>

C8_Witness ==
    /\ last.op = "fmt"
    /\ Len(Pre) = 3
    /\ Count(last.str, ",") = 2

C8_WitnessEmpty ==
    /\ last.op = "fmt"
    /\ Pre = <<>>
    /\ last.str = <<>>
    /\ ~panicked

\* v is w with some elements left out.
RECURSIVE IsSubsequence(_, _)
IsSubsequence(v, w) ==
    IF v = <<>> THEN TRUE
    ELSE IF w = <<>> THEN FALSE
    ELSE IF Head(v) = Head(w) THEN IsSubsequence(Tail(v), Tail(w))
    ELSE IsSubsequence(v, Tail(w))

\* C9: cards_of_rank(v) returns exactly the hand's cards of rank v in hand
\* order, none when none match, and leaves the hand's cards unchanged;
\* cards_of_suit does the same for the suit.
C9_CardsOf ==
    /\ last.op = "cards_of_rank" =>
           /\ ~last.panic
           /\ last.cards = SelectSeq(Pre, LAMBDA c : c.rank = last.key)
           /\ IsSubsequence(last.cards, Pre)
           /\ cards(Self) = Pre
           /\ cards(Other(Self)) = PreOther
    /\ last.op = "cards_of_suit" =>
           /\ ~last.panic
           /\ last.cards = SelectSeq(Pre, LAMBDA c : c.suit = last.key)
           /\ IsSubsequence(last.cards, Pre)
           /\ cards(Self) = Pre
           /\ cards(Other(Self)) = PreOther

C9_Witness ==
    /\ last.op = "cards_of_rank"
    /\ last.key = "Ace"
    /\ Pre = <<AS, KH, AC>>
    /\ last.cards = <<AS, AC>>
    /\ cards(Self) = <<AS, KH, AC>>

\* The orders the elements of xs can be given in.
Orders(xs) ==
    LET n == Len(xs)
        bijections == {p \in [1..n -> 1..n] : \A i, j \in 1..n : p[i] = p[j] => i = j}
    IN  {[k \in 1..n |-> xs[p[k]]] : p \in bijections}

\* The memory before the last call.
PreMem ==
    [heap |-> [x \in Bufs |-> last.pre[CHOOSE h \in Hands : Fresh(h) = x]],
     buf |-> [h \in Hands |-> Fresh(h)]]

\* C10: remove_cards gives the same card sequence for every order its input
\* is given in.
C10_RemoveCardsOrder ==
    last.op = "remove_cards" =>
        \A ys \in Orders(last.xs) :
            vec(remove_cards(PreMem, Self, ys), Self) = cards(Self)

C10_Witness ==
    /\ last.op = "remove_cards"
    /\ Len(last.xs) = 2
    /\ last.xs[1] # last.xs[2]
    /\ Len(Pre) = 4
    /\ Pre[1] = last.xs[2]
    /\ Pre[2] = last.xs[1]
    /\ Pre[3] = last.xs[2]
    /\ Pre[4] = last.xs[1]
    /\ cards(Self) = <<Pre[3], Pre[4]>>

====
